---- MODULE Spec2Model ----
(***************************************************************************)
(* A model of src/server.js, the BlueJeans AI Design Lab backend: the      *)
(* POST /api/design handler and its helpers wixToHttps,                    *)
(* downloadImageToBase64 and generateWithGeminiFlashImage.                 *)
(*                                                                         *)
(* JavaScript strings are sequences of one-character strings, so that      *)
(* startsWith, replace, indexOf, slice, substring and trim are computed    *)
(* as the code computes them.  "nbsp" stands for U+00A0, which the source  *)
(* uses for indentation inside its template literals.                      *)
(***************************************************************************)
EXTENDS Integers, Sequences, FiniteSets, TLC

VARIABLES
    pc,            \* stage of the request handler
    awaiting,      \* the promise the handler is suspended on, or "none"
    body,          \* req.body as parsed by express.json()
    prompt,        \* const { prompt, slabImageUrl, slabLabel } = req.body || {}
    slabImageUrl,
    slabLabel,
    httpsUrl,      \* local of the handler, server.js:203
    resp,          \* local of downloadImageToBase64, server.js:92
    slabBase64,    \* server.js:209
    slabMime,      \* server.js:209
    finalPrompt,   \* server.js:250
    result,        \* local of generateWithGeminiFlashImage, server.js:127
    image,         \* { imageBase64, mimeType }, server.js:263
    err,           \* the value caught at server.js:280
    calls,         \* outbound calls issued so far (fetch, generateContent)
    sent,          \* responses written to res so far
    probe,         \* a helper function applied on its own: its argument and its result
    server,        \* the process: which source file runs, its environment, its phase
    frames         \* the invocations of the handler in flight: the one running, and
                   \* the locals of those suspended or not yet started

vars == << pc, awaiting, body, prompt, slabImageUrl, slabLabel, httpsUrl, resp,
           slabBase64, slabMime, finalPrompt, result, image, err, calls, sent, probe, server, frames >>

----------------------------------------------------------------------------
(* Bounds of the model *)

\* longest tail appended to a URL prefix when wixToHttps is probed on its own
MaxTail == 3
\* longest tail appended to a URL prefix in a request body
MaxReqTail == 1
\* longest list of parts in a generation response when the extraction is probed
MaxParts == 3
\* longest text part of a generation response
MaxTextLen == 102
\* requests in flight at the same time
MaxRequests == 2

----------------------------------------------------------------------------
(* JavaScript values *)

Undef == [t |-> "undefined", v |-> << >>]
Null == [t |-> "null", v |-> << >>]
Str(s) == [t |-> "string", v |-> s]
\* a number, carried as its decimal digits
Num(digits) == [t |-> "number", v |-> digits]
\* a plain object or array, e.g. {} or []
Obj == [t |-> "object", v |-> << >>]

\* String.prototype.trim strips these from both ends
WhiteSpace == {" ", "\n", "\t", "nbsp"}

Min(a, b) == IF a < b THEN a ELSE b

\* s.startsWith(p)
StartsWith(s, p) == Len(s) >= Len(p) /\ SubSeq(s, 1, Len(p)) = p

\* s.indexOf(p): the 0-based position of the first occurrence, or -1
IndexOf(s, p) ==
    LET hits == {i \in 1..(Len(s) - Len(p) + 1) : SubSeq(s, i, i + Len(p) - 1) = p}
    IN IF hits = {} THEN -1 ELSE (CHOOSE i \in hits : \A j \in hits : i <= j) - 1

\* s.replace(p, ""): removes the first occurrence of the string p, if any
ReplaceFirst(s, p) ==
    LET at == IndexOf(s, p)
    IN IF at = -1 THEN s
       ELSE SubSeq(s, 1, at) \o SubSeq(s, at + Len(p) + 1, Len(s))

\* s.slice(0, n) and s.substring(0, n) for 0 <= n
Take(s, n) == SubSeq(s, 1, Min(n, Len(s)))

\* s.trim(): the positions of the first and last character that trim keeps
RECURSIVE TrimStart(_, _)
TrimStart(s, i) ==
    IF i > Len(s) \/ s[i] \notin WhiteSpace THEN i ELSE TrimStart(s, i + 1)

RECURSIVE TrimEnd(_, _)
TrimEnd(s, i) ==
    IF i < 1 \/ s[i] \notin WhiteSpace THEN i ELSE TrimEnd(s, i - 1)

\* s.trim()
Trim(s) == SubSeq(s, TrimStart(s, 1), TrimEnd(s, Len(s)))

\* String(n) for a natural number n, as in `${resp.status}`
RECURSIVE NatToStr(_)
NatToStr(n) ==
    LET digit == << "0", "1", "2", "3", "4", "5", "6", "7", "8", "9" >>
    IN IF n < 10 THEN << digit[n + 1] >>
       ELSE NatToStr(n \div 10) \o << digit[(n % 10) + 1] >>

\* `${x}` for the values a JSON body can carry in slabLabel
ToStr(x) ==
    CASE x.t = "string" -> x.v
      [] x.t = "number" -> x.v
      [] x.t = "undefined" -> << "u", "n", "d", "e", "f", "i", "n", "e", "d" >>
      [] x.t = "null" -> << "n", "u", "l", "l" >>
      [] OTHER -> << "[", "o", "b", "j", "e", "c", "t", " ", "O", "b", "j", "e", "c", "t", "]" >>

----------------------------------------------------------------------------
(* String constants of server.js *)

\* server.js:56  wixUrl.startsWith("http://")
HttpPrefix ==
    << "h", "t", "t", "p", ":", "/", "/" >>

\* server.js:56  wixUrl.startsWith("https://")
HttpsPrefix ==
    << "h", "t", "t", "p", "s", ":", "/", "/" >>

\* server.js:62
WixScheme ==
    << "w", "i", "x", ":", "i", "m", "a", "g", "e", ":", "/", "/" >>

\* server.js:67
WixV1Prefix ==
    << "w", "i", "x", ":", "i", "m", "a", "g", "e", ":", "/", "/", "v", "1", "/" >>

\* server.js:77  the text before ${mediaId}
StaticMediaBase ==
    << "h", "t", "t", "p", "s", ":", "/", "/", "s", "t", "a", "t", "i", "c", ".", "w", "i", "x",
       "s", "t", "a", "t", "i", "c", ".", "c", "o", "m", "/", "m", "e", "d", "i", "a", "/" >>

\* server.js:77  the text after ${mediaId}
RawSuffix ==
    << "?", "r", "a", "w", "=", "1" >>

\* server.js:190
PromptEmptyMsg ==
    << "P", "r", "o", "m", "p", "t", " ", "c", "a", "n", "n", "o", "t", " ", "b", "e", " ", "e",
       "m", "p", "t", "y", "." >>

\* server.js:197
SlabMissingMsg ==
    << "s", "l", "a", "b", "I", "m", "a", "g", "e", "U", "r", "l", " ", "i", "s", " ", "m", "i",
       "s", "s", "i", "n", "g", ".", " ", "P", "l", "e", "a", "s", "e", " ", "s", "e", "l", "e",
       "c", "t", " ", "a", " ", "s", "l", "a", "b", " ", "f", "i", "r", "s", "t", "." >>

\* server.js:205
ConvertFailMsg ==
    << "C", "o", "u", "l", "d", " ", "n", "o", "t", " ", "c", "o", "n", "v", "e", "r", "t", " ",
       "s", "l", "a", "b", "I", "m", "a", "g", "e", "U", "r", "l", " ", "t", "o", " ", "a", " ",
       "v", "a", "l", "i", "d", " ", "h", "t", "t", "p", "s", " ", "U", "R", "L", "." >>

\* server.js:104  the text before ${resp.status}
DownloadFailPrefix ==
    << "S", "l", "a", "b", " ", "i", "m", "a", "g", "e", " ", "d", "o", "w", "n", "l", "o", "a",
       "d", " ", "f", "a", "i", "l", "e", "d", ":", " " >>

\* server.js:150
EmptyResponseMsg ==
    << "G", "e", "m", "i", "n", "i", " ", "3", " ", "P", "r", "o", " ", "I", "m", "a", "g", "e",
       " ", "r", "e", "t", "u", "r", "n", "e", "d", " ", "a", "n", " ", "e", "m", "p", "t", "y",
       " ", "r", "e", "s", "p", "o", "n", "s", "e", "." >>

\* server.js:166  the text before the snippet
OnlyTextHead ==
    << "M", "o", "d", "e", "l", " ", "r", "e", "t", "u", "r", "n", "e", "d", " ", "o", "n", "l",
       "y", " ", "t", "e", "x", "t", ":", " ", "\"" >>

\* server.js:166  the text after the snippet
OnlyTextTail ==
    << ".", ".", ".", "\"" >>

\* server.js:167
NoInlineDataMsg ==
    << "R", "e", "s", "p", "o", "n", "s", "e", " ", "d", "o", "e", "s", " ", "n", "o", "t", " ",
       "c", "o", "n", "t", "a", "i", "n", " ", "i", "n", "l", "i", "n", "e", " ", "i", "m", "a",
       "g", "e", " ", "d", "a", "t", "a", "." >>

\* server.js:169
GenFailedPrefix ==
    << "I", "m", "a", "g", "e", " ", "g", "e", "n", "e", "r", "a", "t", "i", "o", "n", " ", "f",
       "a", "i", "l", "e", "d", ".", " " >>

\* server.js:286
FallbackMsg ==
    << "G", "e", "m", "i", "n", "i", " ", "3", " ", "P", "r", "o", " ", "I", "m", "a", "g", "e",
       " ", "r", "e", "q", "u", "e", "s", "t", " ", "f", "a", "i", "l", "e", "d", " ", "w", "i",
       "t", "h", " ", "a", "n", " ", "u", "n", "e", "x", "p", "e", "c", "t", "e", "d", " ", "e",
       "r", "r", "o", "r", ".", " ", "P", "l", "e", "a", "s", "e", " ", "t", "r", "y", " ", "a",
       "g", "a", "i", "n", "." >>

\* server.js:33
MODEL_NAME ==
    << "g", "e", "m", "i", "n", "i", "-", "3", "-", "p", "r", "o", "-", "i", "m", "a", "g", "e",
       "-", "p", "r", "e", "v", "i", "e", "w" >>

\* server.js:110
DefaultSlabMime ==
    << "i", "m", "a", "g", "e", "/", "j", "p", "e", "g" >>

\* server.js:174
DefaultImageMime ==
    << "i", "m", "a", "g", "e", "/", "p", "n", "g" >>

\* server.js:216-223  the template literal of baseStyle, before .trim()
BaseStyleTemplate ==
    << "\n", "Y", "o", "u", " ", "a", "r", "e", " ", "a", "n", " ", "e", "x", "p", "e", "r", "t",
       " ", "a", "r", "c", "h", "i", "t", "e", "c", "t", "u", "r", "a", "l", " ", "v", "i", "s",
       "u", "a", "l", "i", "z", "a", "t", "i", "o", "n", " ", "a", "n", "d", " ", "C", "G", "I",
       " ", "r", "e", "n", "d", "e", "r", "e", "r", ".", "\n", "G", "e", "n", "e", "r", "a", "t",
       "e", " ", "a", "n", " ", "u", "l", "t", "r", "a", "-", "p", "h", "o", "t", "o", "r", "e",
       "a", "l", "i", "s", "t", "i", "c", ",", " ", "h", "i", "g", "h", "-", "r", "e", "s", "o",
       "l", "u", "t", "i", "o", "n", " ", "(", "4", "K", " ", "o", "r", " ", "h", "i", "g", "h",
       "e", "r", ")", " ", "i", "n", "t", "e", "r", "i", "o", "r", " ", "o", "r", " ", "e", "x",
       "t", "e", "r", "i", "o", "r", " ", "s", "c", "e", "n", "e", ".", "\n", "U", "s", "e", " ",
       "p", "h", "y", "s", "i", "c", "a", "l", "l", "y", " ", "b", "a", "s", "e", "d", " ", "r",
       "e", "n", "d", "e", "r", "i", "n", "g", " ", "(", "P", "B", "R", ")", ",", " ", "r", "e",
       "a", "l", "i", "s", "t", "i", "c", " ", "g", "l", "o", "b", "a", "l", " ", "i", "l", "l",
       "u", "m", "i", "n", "a", "t", "i", "o", "n", ",", " ", "s", "o", "f", "t", " ", "n", "a",
       "t", "u", "r", "a", "l", " ", "o", "r", " ", "a", "r", "c", "h", "i", "t", "e", "c", "t",
       "u", "r", "a", "l", " ", "l", "i", "g", "h", "t", "i", "n", "g", ",", "\n", "a", "c", "c",
       "u", "r", "a", "t", "e", " ", "s", "h", "a", "d", "o", "w", "s", " ", "a", "n", "d", " ",
       "r", "e", "f", "l", "e", "c", "t", "i", "o", "n", "s", ",", " ", "a", "n", "d", " ", "c",
       "i", "n", "e", "m", "a", "t", "i", "c", " ", "c", "o", "m", "p", "o", "s", "i", "t", "i",
       "o", "n", " ", "a", "t", " ", "h", "u", "m", "a", "n", " ", "e", "y", "e", " ", "l", "e",
       "v", "e", "l", ".", "\n", "*", "*", "E", "n", "s", "u", "r", "e", " ", "t", "h", "e", " ",
       "l", "i", "g", "h", "t", "i", "n", "g", " ", "a", "c", "c", "u", "r", "a", "t", "e", "l",
       "y", " ", "h", "i", "g", "h", "l", "i", "g", "h", "t", "s", " ", "t", "h", "e", " ", "u",
       "n", "i", "q", "u", "e", " ", "c", "h", "a", "r", "a", "c", "t", "e", "r", "i", "s", "t",
       "i", "c", "s", " ", "a", "n", "d", " ", "l", "u", "s", "t", "e", "r", " ", "o", "f", " ",
       "t", "h", "e", " ", "s", "t", "o", "n", "e", ".", "*", "*", "\n", "D", "o", " ", "n", "o",
       "t", " ", "g", "e", "n", "e", "r", "a", "t", "e", " ", "a", "n", "y", " ", "t", "e", "x",
       "t", ",", " ", "w", "a", "t", "e", "r", "m", "a", "r", "k", "s", ",", " ", "U", "I", " ",
       "e", "l", "e", "m", "e", "n", "t", "s", ",", " ", "o", "r", " ", "l", "o", "g", "o", "s",
       " ", "i", "n", " ", "t", "h", "e", " ", "i", "m", "a", "g", "e", ".", "\n", "nbsp", " ",
       "nbsp", " " >>

\* server.js:227-228  labelled material template, the text before ${slabLabel}
MaterialLabelHead ==
    << "\n", "T", "h", "e", " ", "c", "o", "r", "e", " ", "m", "a", "t", "e", "r", "i", "a", "l",
       " ", "i", "s", " ", "p", "r", "e", "m", "i", "u", "m", " ", "B", "l", "u", "e", " ", "J",
       "e", "a", "n", "s", " ", "M", "a", "r", "b", "l", "e", " " >>

\* server.js:228-235  labelled material template, the text after ${slabLabel}
MaterialLabelTail ==
    << ",", " ", "a", " ", "q", "u", "a", "r", "r", "y", "-", "o", "r", "i", "g", "i", "n", " ",
       "e", "x", "o", "t", "i", "c", " ", "d", "o", "l", "o", "m", "i", "t", "i", "c", " ", "m",
       "a", "r", "b", "l", "e", " ", "f", "r", "o", "m", " ", "E", "r", "z", "u", "r", "u", "m",
       ",", " ", "T", "u", "r", "k", "e", "y", ".", "\n", "T", "h", "e", " ", "g", "e", "n", "e",
       "r", "a", "t", "e", "d", " ", "s", "c", "e", "n", "e", " ", "m", "u", "s", "t", " ", "p",
       "r", "e", "s", "e", "r", "v", "e", " ", "t", "h", "e", " ", "t", "e", "x", "t", "u", "r",
       "e", " ", "a", "n", "d", " ", "p", "a", "t", "t", "e", "r", "n", " ", "o", "f", " ", "t",
       "h", "e", " ", "u", "p", "l", "o", "a", "d", "e", "d", " ", "s", "l", "a", "b", " ", "i",
       "m", "a", "g", "e", ":", " ", "d", "e", "e", "p", " ", "d", "e", "n", "i", "m", "-", "b",
       "l", "u", "e", " ", "t", "o", "n", "e", "s", ",", "\n", "d", "r", "a", "m", "a", "t", "i",
       "c", " ", "v", "e", "i", "n", "i", "n", "g", " ", "w", "i", "t", "h", " ", "b", "r", "o",
       "n", "z", "e", " ", "a", "n", "d", " ", "w", "h", "i", "t", "e", " ", "a", "c", "c", "e",
       "n", "t", "s", ",", " ", "a", "n", "d", " ", "a", " ", "f", "i", "n", "e", " ", "c", "r",
       "y", "s", "t", "a", "l", "l", "i", "n", "e", " ", "s", "t", "r", "u", "c", "t", "u", "r",
       "e", ".", "\n", "U", "s", "e", " ", "t", "h", "i", "s", " ", "s", "l", "a", "b", " ", "i",
       "m", "a", "g", "e", " ", "a", "s", " ", "t", "h", "e", " ", "a", "u", "t", "h", "o", "r",
       "i", "t", "a", "t", "i", "v", "e", " ", "r", "e", "f", "e", "r", "e", "n", "c", "e", " ",
       "f", "o", "r", " ", "c", "o", "l", "o", "r", ",", " ", "v", "e", "i", "n", "i", "n", "g",
       " ", "d", "i", "r", "e", "c", "t", "i", "o", "n", " ", "a", "n", "d", " ", "p", "a", "t",
       "t", "e", "r", "n", " ", "d", "e", "n", "s", "i", "t", "y", ".", "\n", "A", "p", "p", "l",
       "y", " ", "t", "h", "i", "s", " ", "B", "l", "u", "e", " ", "J", "e", "a", "n", "s", " ",
       "M", "a", "r", "b", "l", "e", " ", "t", "o", " ", "t", "h", "e", " ", "k", "e", "y", " ",
       "s", "u", "r", "f", "a", "c", "e", "s", " ", "d", "e", "s", "c", "r", "i", "b", "e", "d",
       " ", "b", "y", " ", "t", "h", "e", " ", "u", "s", "e", "r", " ", "(", "f", "o", "r", " ",
       "e", "x", "a", "m", "p", "l", "e", ":", " ", "c", "o", "u", "n", "t", "e", "r", "t", "o",
       "p", "s", ",", " ", "k", "i", "t", "c", "h", "e", "n", " ", "i", "s", "l", "a", "n", "d",
       "s", ",", "\n", "b", "a", "t", "h", "r", "o", "o", "m", " ", "v", "a", "n", "i", "t", "i",
       "e", "s", ",", " ", "s", "h", "o", "w", "e", "r", " ", "w", "a", "l", "l", "s", ",", " ",
       "f", "e", "a", "t", "u", "r", "e", " ", "w", "a", "l", "l", "s", ",", " ", "f", "l", "o",
       "o", "r", "i", "n", "g", ",", " ", "f", "i", "r", "e", "p", "l", "a", "c", "e", "s", ",",
       " ", "o", "r", " ", "r", "e", "c", "e", "p", "t", "i", "o", "n", " ", "d", "e", "s", "k",
       "s", ")", ".", "\n", "T", "h", "e", " ", "s", "t", "o", "n", "e", " ", "s", "u", "r", "f",
       "a", "c", "e", " ", "s", "h", "o", "u", "l", "d", " ", "a", "p", "p", "e", "a", "r", " ",
       "h", "i", "g", "h", "l", "y", " ", "p", "o", "l", "i", "s", "h", "e", "d", " ", "w", "i",
       "t", "h", " ", "r", "e", "a", "l", "i", "s", "t", "i", "c", " ", "r", "e", "f", "l", "e",
       "c", "t", "i", "o", "n", "s", " ", "a", "n", "d", " ", "s", "u", "b", "t", "l", "e", " ",
       "l", "i", "g", "h", "t", " ", "b", "l", "o", "o", "m", ",", " ", "w", "i", "t", "h", "o",
       "u", "t", " ", "e", "x", "a", "g", "g", "e", "r", "a", "t", "i", "o", "n", ".", "\n",
       "nbsp", " ", "nbsp", " ", "nbsp", " " >>

\* server.js:236-244  unlabelled material template, before .trim()
MaterialPlainTemplate ==
    << "\n", "T", "h", "e", " ", "c", "o", "r", "e", " ", "m", "a", "t", "e", "r", "i", "a", "l",
       " ", "i", "s", " ", "p", "r", "e", "m", "i", "u", "m", " ", "B", "l", "u", "e", " ", "J",
       "e", "a", "n", "s", " ", "M", "a", "r", "b", "l", "e", ",", " ", "a", " ", "q", "u", "a",
       "r", "r", "y", "-", "o", "r", "i", "g", "i", "n", " ", "e", "x", "o", "t", "i", "c", " ",
       "d", "o", "l", "o", "m", "i", "t", "i", "c", " ", "m", "a", "r", "b", "l", "e", " ", "f",
       "r", "o", "m", " ", "E", "r", "z", "u", "r", "u", "m", ",", " ", "T", "u", "r", "k", "e",
       "y", ".", "\n", "T", "h", "e", " ", "g", "e", "n", "e", "r", "a", "t", "e", "d", " ", "s",
       "c", "e", "n", "e", " ", "m", "u", "s", "t", " ", "p", "r", "e", "s", "e", "r", "v", "e",
       " ", "t", "h", "e", " ", "t", "e", "x", "t", "u", "r", "e", " ", "a", "n", "d", " ", "p",
       "a", "t", "t", "e", "r", "n", " ", "o", "f", " ", "t", "h", "e", " ", "u", "p", "l", "o",
       "a", "d", "e", "d", " ", "s", "l", "a", "b", " ", "i", "m", "a", "g", "e", ":", " ", "d",
       "e", "e", "p", " ", "d", "e", "n", "i", "m", "-", "b", "l", "u", "e", " ", "t", "o", "n",
       "e", "s", ",", "\n", "d", "r", "a", "m", "a", "t", "i", "c", " ", "v", "e", "i", "n", "i",
       "n", "g", " ", "w", "i", "t", "h", " ", "b", "r", "o", "n", "z", "e", " ", "a", "n", "d",
       " ", "w", "h", "i", "t", "e", " ", "a", "c", "c", "e", "n", "t", "s", ",", " ", "a", "n",
       "d", " ", "a", " ", "f", "i", "n", "e", " ", "c", "r", "y", "s", "t", "a", "l", "l", "i",
       "n", "e", " ", "s", "t", "r", "u", "c", "t", "u", "r", "e", ".", "\n", "U", "s", "e", " ",
       "t", "h", "i", "s", " ", "s", "l", "a", "b", " ", "i", "m", "a", "g", "e", " ", "a", "s",
       " ", "t", "h", "e", " ", "a", "u", "t", "h", "o", "r", "i", "t", "a", "t", "i", "v", "e",
       " ", "r", "e", "f", "e", "r", "e", "n", "c", "e", " ", "f", "o", "r", " ", "c", "o", "l",
       "o", "r", ",", " ", "v", "e", "i", "n", "i", "n", "g", " ", "d", "i", "r", "e", "c", "t",
       "i", "o", "n", " ", "a", "n", "d", " ", "p", "a", "t", "t", "e", "r", "n", " ", "d", "e",
       "n", "s", "i", "t", "y", ".", "\n", "A", "p", "p", "l", "y", " ", "t", "h", "i", "s", " ",
       "B", "l", "u", "e", " ", "J", "e", "a", "n", "s", " ", "M", "a", "r", "b", "l", "e", " ",
       "t", "o", " ", "t", "h", "e", " ", "k", "e", "y", " ", "s", "u", "r", "f", "a", "c", "e",
       "s", " ", "d", "e", "s", "c", "r", "i", "b", "e", "d", " ", "b", "y", " ", "t", "h", "e",
       " ", "u", "s", "e", "r", " ", "(", "f", "o", "r", " ", "e", "x", "a", "m", "p", "l", "e",
       ":", " ", "c", "o", "u", "n", "t", "e", "r", "t", "o", "p", "s", ",", " ", "k", "i", "t",
       "c", "h", "e", "n", " ", "i", "s", "l", "a", "n", "d", "s", ",", "\n", "b", "a", "t", "h",
       "r", "o", "o", "m", " ", "v", "a", "n", "i", "t", "i", "e", "s", ",", " ", "s", "h", "o",
       "w", "e", "r", " ", "w", "a", "l", "l", "s", ",", " ", "f", "e", "a", "t", "u", "r", "e",
       " ", "w", "a", "l", "l", "s", ",", " ", "f", "l", "o", "o", "r", "i", "n", "g", ",", " ",
       "f", "i", "r", "e", "p", "l", "a", "c", "e", "s", ",", " ", "o", "r", " ", "r", "e", "c",
       "e", "p", "t", "i", "o", "n", " ", "d", "e", "s", "k", "s", ")", ".", "\n", "T", "h", "e",
       " ", "s", "t", "o", "n", "e", " ", "s", "u", "r", "f", "a", "c", "e", " ", "s", "h", "o",
       "u", "l", "d", " ", "a", "p", "p", "e", "a", "r", " ", "h", "i", "g", "h", "l", "y", " ",
       "p", "o", "l", "i", "s", "h", "e", "d", " ", "w", "i", "t", "h", " ", "r", "e", "a", "l",
       "i", "s", "t", "i", "c", " ", "r", "e", "f", "l", "e", "c", "t", "i", "o", "n", "s", " ",
       "a", "n", "d", " ", "s", "u", "b", "t", "l", "e", " ", "l", "i", "g", "h", "t", " ", "b",
       "l", "o", "o", "m", ",", " ", "w", "i", "t", "h", "o", "u", "t", " ", "e", "x", "a", "g",
       "g", "e", "r", "a", "t", "i", "o", "n", ".", "\n", "nbsp", " ", "nbsp", " ", "nbsp", " " >>

\* server.js:247
UserPromptPrefix ==
    << "U", "S", "E", "R", " ", "P", "R", "O", "M", "P", "T", ":", " " >>

\* server.js:250-258  pieces of the finalPrompt template literal around its three substitutions
FinalHead ==
    << "\n" >>

FinalSep1 ==
    << "\n", "\n" >>

FinalSep2 ==
    << "\n", "\n", "N", "o", "w", " ", "f", "o", "l", "l", "o", "w", " ", "t", "h", "e", " ", "u",
       "s", "e", "r", " ", "r", "e", "q", "u", "e", "s", "t", " ", "e", "x", "a", "c", "t", "l",
       "y", " ", "a", "n", "d", " ", "c", "o", "m", "p", "o", "s", "e", " ", "t", "h", "e", " ",
       "b", "e", "s", "t", " ", "p", "o", "s", "s", "i", "b", "l", "e", " ", "s", "c", "e", "n",
       "e", ":", "\n", "\n" >>

FinalTail ==
    << "\n", "nbsp", " ", "nbsp", " " >>

----------------------------------------------------------------------------
(* Objects, arrays and errors *)

True == [t |-> "boolean", v |-> << "t", "r", "u", "e" >>]
False == [t |-> "boolean", v |-> << "f", "a", "l", "s", "e" >>]

\* a JavaScript array
Arr(items) == [t |-> "array", items |-> items]

\* x === undefined || x === null, the test made by ?.
Nullish(x) == "t" \in DOMAIN x /\ x.t \in {"undefined", "null"}

\* ToBoolean, as applied by !x, x || y, x && y, x ? a : b and filter(Boolean);
\* objects (records without a type tag) and arrays are truthy
Truthy(x) ==
    IF "t" \notin DOMAIN x THEN TRUE
    ELSE CASE x.t = "undefined" -> FALSE
           [] x.t = "null" -> FALSE
           [] x.t = "string" -> x.v # << >>
           [] x.t = "number" -> x.v # << "0" >>
           [] x.t = "boolean" -> x = True
           [] OTHER -> TRUE

\* typeof x === "string"
IsString(x) == "t" \in DOMAIN x /\ x.t = "string"

\* obj.key, which is undefined for a key the object does not have
Get(obj, key) == IF key \in DOMAIN obj THEN obj[key] ELSE Undef

\* what a client reads back from res.json(obj): JSON.stringify omits the
\* keys whose value is undefined
JsonObject(obj) == [k \in {key \in DOMAIN obj : obj[key] # Undef} |-> obj[k]]

\* new Error(message)
Error(message) == [message |-> Str(message)]

\* the outcome of a call: a returned value or a thrown error
Return(value) == [threw |-> FALSE, value |-> value]
Throw(error) == [threw |-> TRUE, error |-> error]

----------------------------------------------------------------------------
(* 3) Helper: Wix URL -> static.wixstatic.com *)

\* wixToHttps with the query parameter appended to every result
wixToHttps_RawOnHttp(wixUrl) ==
    IF ~Truthy(wixUrl) \/ ~IsString(wixUrl) THEN Null
    ELSE IF StartsWith(wixUrl.v, HttpPrefix) \/ StartsWith(wixUrl.v, HttpsPrefix)
         THEN Str(wixUrl.v \o RawSuffix)
    ELSE IF ~StartsWith(wixUrl.v, WixScheme) THEN Null
    ELSE LET withoutPrefix == ReplaceFirst(wixUrl.v, WixV1Prefix)
             firstSlashIdx == IndexOf(withoutPrefix, << "/" >>)
             idWithExt == IF firstSlashIdx = -1 THEN withoutPrefix
                          ELSE Take(withoutPrefix, firstSlashIdx)
         IN Str(StaticMediaBase \o idWithExt \o RawSuffix)

wixToHttps(wixUrl) ==
    IF ~Truthy(wixUrl) \/ ~IsString(wixUrl) THEN Null
    ELSE IF StartsWith(wixUrl.v, HttpPrefix) \/ StartsWith(wixUrl.v, HttpsPrefix)
         THEN wixUrl
    ELSE IF ~StartsWith(wixUrl.v, WixScheme) THEN Null
    ELSE LET withoutPrefix == ReplaceFirst(wixUrl.v, WixV1Prefix)
             firstSlashIdx == IndexOf(withoutPrefix, << "/" >>)
             idWithExt == IF firstSlashIdx = -1 THEN withoutPrefix
                          ELSE Take(withoutPrefix, firstSlashIdx)
             mediaId == idWithExt
         IN Str(StaticMediaBase \o mediaId \o RawSuffix)

----------------------------------------------------------------------------
(* 4) Helper: download image -> base64 *)

Base64Alphabet ==
    << "A", "B", "C", "D", "E", "F", "G", "H", "I", "J", "K", "L", "M", "N", "O", "P",
       "Q", "R", "S", "T", "U", "V", "W", "X", "Y", "Z", "a", "b", "c", "d", "e", "f",
       "g", "h", "i", "j", "k", "l", "m", "n", "o", "p", "q", "r", "s", "t", "u", "v",
       "w", "x", "y", "z", "0", "1", "2", "3", "4", "5", "6", "7", "8", "9", "+", "/" >>

\* Buffer.from(bytes).toString("base64")
RECURSIVE Base64(_)
Base64(bytes) ==
    LET sextet(n) == Base64Alphabet[n + 1]
        b1 == bytes[1]
        b2 == bytes[2]
        b3 == bytes[3]
    IN CASE Len(bytes) = 0 -> << >>
         [] Len(bytes) = 1 ->
              << sextet(b1 \div 4), sextet((b1 % 4) * 16), "=", "=" >>
         [] Len(bytes) = 2 ->
              << sextet(b1 \div 4), sextet((b1 % 4) * 16 + b2 \div 16),
                 sextet((b2 % 16) * 4), "=" >>
         [] OTHER ->
              << sextet(b1 \div 4), sextet((b1 % 4) * 16 + b2 \div 16),
                 sextet((b2 % 16) * 4 + b3 \div 64), sextet(b3 % 64) >>
              \o Base64(SubSeq(bytes, 4, Len(bytes)))

\* Response.ok of node-fetch: the status is in the range 200-299
RespOk(r) == r.status >= 200 /\ r.status <= 299

\* the error thrown for a non-success status
\* the upstream body quoted in the error message
DownloadError_WithBody(r) ==
    Error(DownloadFailPrefix \o NatToStr(r.status) \o << " " >> \o r.statusText
          \o << " " >> \o r.text)

DownloadError(r) ==
    Error(DownloadFailPrefix \o NatToStr(r.status) \o << " " >> \o r.statusText)

\* const mimeType = resp.headers.get("content-type") || "image/jpeg"
SlabMimeOf(r) == IF Truthy(r.contentType) THEN r.contentType ELSE Str(DefaultSlabMime)

----------------------------------------------------------------------------
(* 3) of the handler: the pre-prompt engine *)

baseStyle == Trim(BaseStyleTemplate)

materialBlock(label) ==
    IF Truthy(label)
    THEN Trim(MaterialLabelHead \o ToStr(label) \o MaterialLabelTail)
    ELSE Trim(MaterialPlainTemplate)

userBlock(p) == UserPromptPrefix \o ToStr(p)

ComposePrompt(p, label) ==
    Str(Trim(FinalHead \o baseStyle \o FinalSep1 \o materialBlock(label)
             \o FinalSep2 \o userBlock(p) \o FinalTail))

----------------------------------------------------------------------------
(* 5) Helper: Gemini 3 Pro Image - image+text -> image *)

\* the argument of model.generateContent
\* the text part placed ahead of the slab image
GenRequest_TextFirst(p, base64, mime) ==
    [model |-> Str(MODEL_NAME),
     contents |-> Arr(<< [role |-> "user",
                          parts |-> Arr(SelectSeq(
                              << [text |-> p],
                                 IF Truthy(base64) /\ Truthy(mime)
                                 THEN [inlineData |-> [mimeType |-> mime, data |-> base64]]
                                 ELSE Null >>,
                              Truthy))] >>)]

GenRequest(p, base64, mime) ==
    [model |-> Str(MODEL_NAME),
     contents |-> Arr(<< [role |-> "user",
                          parts |-> Arr(SelectSeq(
                              << IF Truthy(base64) /\ Truthy(mime)
                                 THEN [inlineData |-> [mimeType |-> mime, data |-> base64]]
                                 ELSE Null,
                                 [text |-> p] >>,
                              Truthy))] >>)]

\* result?.response?.candidates?.[0]
FirstCandidate(res) ==
    IF Nullish(res) THEN Undef
    ELSE IF Nullish(res.response) THEN Undef
    ELSE IF Nullish(res.response.candidates) THEN Undef
    ELSE IF Len(res.response.candidates.items) = 0 THEN Undef
    ELSE res.response.candidates.items[1]

\* any part with an inlineData object taken as the image, whatever its data
HasImageData_AnyInline(p) == Truthy(p.inlineData)

HasImageData(p) == Truthy(p.inlineData) /\ Truthy(p.inlineData.data)
HasText(p) == Truthy(p.text)

\* a search that keeps the last part carrying image data instead of the first
FirstImagePart_Last(parts) ==
    LET hits == {i \in 1..Len(parts) : HasImageData(parts[i])}
    IN IF hits = {} THEN 0 ELSE CHOOSE i \in hits : \A j \in hits : i >= j

\* parts.find((p) => p.inlineData && p.inlineData.data): the position of the
\* first such part, 0 if there is none
FirstImagePart(parts) ==
    LET hits == {i \in 1..Len(parts) : HasImageData(parts[i])}
    IN IF hits = {} THEN 0 ELSE CHOOSE i \in hits : \A j \in hits : i <= j

\* parts.find((p) => p.text): the position of the first such part, 0 if none
FirstTextPart(parts) ==
    LET hits == {i \in 1..Len(parts) : HasText(parts[i])}
    IN IF hits = {} THEN 0 ELSE CHOOSE i \in hits : \A j \in hits : i <= j

\* the length of the text snippet quoted in the error detail
SnippetLen == 100

\* the whole text quoted, without the cut
Snippet_Whole(text) == text

\* textPart.text.substring(0, 100)
Snippet(text) == Take(text, SnippetLen)

\* the part of generateWithGeminiFlashImage that follows the call
\* the content and the parts of the first candidate dereferenced unguarded
ExtractImage_Unchecked(res) ==
    LET candidate == FirstCandidate(res)
    IN IF ~Truthy(candidate)
       THEN Throw(Error(EmptyResponseMsg))
       ELSE IF ~Truthy(candidate.content) \/ ~Truthy(candidate.content.parts)
       THEN Throw(Error(<< "C", "a", "n", "n", "o", "t", " ", "r", "e", "a", "d", " ", "p", "r", "o", "p", "e", "r", "t", "i", "e", "s", " ", "o", "f", " ", "u", "n", "d", "e", "f", "i", "n", "e", "d", " ", "(", "r", "e", "a", "d", "i", "n", "g", " ", "'", "p", "a", "r", "t", "s", "'", ")" >>))
       ELSE LET parts == candidate.content.parts.items
                imageAt == FirstImagePart(parts)
                textAt == FirstTextPart(parts)
                errorDetail ==
                    IF textAt # 0
                    THEN OnlyTextHead \o Snippet(parts[textAt].text.v) \o OnlyTextTail
                    ELSE NoInlineDataMsg
            IN IF imageAt = 0
               THEN Throw(Error(GenFailedPrefix \o errorDetail))
               ELSE Return([imageBase64 |-> parts[imageAt].inlineData.data,
                            mimeType |->
                                IF Truthy(parts[imageAt].inlineData.mimeType)
                                THEN parts[imageAt].inlineData.mimeType
                                ELSE Str(DefaultImageMime)])

ExtractImage(res) ==
    LET candidate == FirstCandidate(res)
    IN IF ~Truthy(candidate) \/ ~Truthy(candidate.content)
          \/ ~Truthy(candidate.content.parts)
       THEN Throw(Error(EmptyResponseMsg))
       ELSE LET parts == candidate.content.parts.items
                imageAt == FirstImagePart(parts)
                textAt == FirstTextPart(parts)
                errorDetail ==
                    IF textAt # 0
                    THEN OnlyTextHead \o Snippet(parts[textAt].text.v) \o OnlyTextTail
                    ELSE NoInlineDataMsg
            IN IF imageAt = 0
               THEN Throw(Error(GenFailedPrefix \o errorDetail))
               ELSE Return([imageBase64 |-> parts[imageAt].inlineData.data,
                            mimeType |->
                                IF Truthy(parts[imageAt].inlineData.mimeType)
                                THEN parts[imageAt].inlineData.mimeType
                                ELSE Str(DefaultImageMime)])

----------------------------------------------------------------------------
(* The environment: request bodies, the asset host, the generation backend *)

UrlAlphabet == {"a", "/", "#", " "}

Tails(n) == UNION {[1..k -> UrlAlphabet] : k \in 0..n}

UrlPrefixes ==
    {<< >>, HttpPrefix, HttpsPrefix, WixScheme, WixV1Prefix,
     << "f", "t", "p", ":", "/", "/" >>}

UrlStrings(n) == {p \o tl : p \in UrlPrefixes, tl \in Tails(n)}

\* values of a JSON body that are not strings, and a missing key
NonStrings == {Undef, Null, Num(<< "0" >>), Num(<< "5" >>), Obj}

Prompts ==
    NonStrings \cup
    {Str(<< >>), Str(<< " " >>), Str(<< "\n", " " >>),
     Str(<< "Z", "q" >>), Str(<< " ", "Z", "q", "\n" >>)}

ReqUrls == NonStrings \cup {Str(<< >>)} \cup {Str(s) : s \in UrlStrings(MaxReqTail)}

Labels == {Undef, Str(<< >>), Str(<< "Q", "-", "7" >>)}

\* req.body: undefined when no JSON body was parsed
Bodies ==
    {Undef} \cup
    {[prompt |-> p, slabImageUrl |-> u, slabLabel |-> l] :
        p \in Prompts, u \in ReqUrls, l \in Labels}

\* messages of the errors thrown by node-fetch and by the SDK
ThrownMessages == {<< "E", "C", "O", "N", "N", "R", "E", "S", "E", "T" >>, << >>}

\* what await fetch(url) can produce
FetchResponses ==
    {[status |-> 404, statusText |-> << "N", "o", "t", " ", "F", "o", "u", "n", "d" >>,
      text |-> tx, textRejects |-> rj, bytes |-> << >>, bufferRejects |-> FALSE,
      contentType |-> Str(<< "t", "e", "x", "t", "/", "h", "t", "m", "l" >>)] :
        tx \in {<< >>, << "<", "p", ">" >>}, rj \in BOOLEAN}
    \cup
    {[status |-> 503, statusText |-> << >>, text |-> << >>, textRejects |-> FALSE,
      bytes |-> << >>, bufferRejects |-> FALSE, contentType |-> Null]}
    \cup
    {[status |-> 200, statusText |-> << "O", "K" >>, text |-> << >>,
      textRejects |-> FALSE, bytes |-> by, bufferRejects |-> FALSE, contentType |-> ct] :
        by \in {<< >>, << 255, 216, 255, 224 >>},
        ct \in {Null, Str(<< "i", "m", "a", "g", "e", "/", "p", "n", "g" >>)}}
    \cup
    {[status |-> 200, statusText |-> << "O", "K" >>, text |-> << >>,
      textRejects |-> FALSE, bytes |-> << >>, bufferRejects |-> TRUE, contentType |-> Null]}

FetchOutcomes ==
    {Throw(Error(m)) : m \in ThrownMessages} \cup {Return(r) : r \in FetchResponses}

\* parts of a generation response
TextPart(s) == [text |-> Str(s), inlineData |-> Undef]
BinPart(data, mime) == [text |-> Undef, inlineData |-> [data |-> Str(data), mimeType |-> mime]]
OtherPart == [text |-> Undef, inlineData |-> Undef]

\* a text of n characters whose characters differ with their position
TextOf(n) == [i \in 1..n |-> << "s", "o", "r", "r", "y", ".", " " >>[(i % 7) + 1]]

Png == Str(<< "i", "m", "a", "g", "e", "/", "p", "n", "g" >>)
Jpeg == Str(<< "i", "m", "a", "g", "e", "/", "j", "p", "e", "g" >>)
DataA == << "A", "A", "A", "A" >>
DataB == << "B", "B", "B", "B" >>
DataC == << "C", "C", "C", "C" >>

Candidate(parts) == [content |-> [parts |-> Arr(parts)]]
GenResult(candidates) == [response |-> [candidates |-> Arr(candidates)]]

\* responses without a usable first candidate
MalformedResults ==
    {Undef,
     [response |-> Undef],
     [response |-> [candidates |-> Undef]],
     GenResult(<< >>),
     GenResult(<< Null, Candidate(<< BinPart(DataB, Jpeg) >>) >>),
     GenResult(<< [content |-> Undef], Candidate(<< BinPart(DataB, Jpeg) >>) >>),
     GenResult(<< [content |-> [parts |-> Undef]] >>)}

\* what await model.generateContent(...) can resolve to in a request
ReqGenResults ==
    MalformedResults \cup
    {GenResult(<< Candidate(ps) >>) :
        ps \in {<< >>,
                << OtherPart >>,
                << TextPart(TextOf(5)) >>,
                << TextPart(<< >>), TextPart(TextOf(SnippetLen + 1)) >>,
                << BinPart(DataA, Png) >>,
                << BinPart(DataC, Undef) >>,
                << TextPart(TextOf(4)), BinPart(DataA, Png), BinPart(DataB, Jpeg) >>,
                << BinPart(<< >>, Png), BinPart(DataB, Jpeg) >>}}
    \cup
    {GenResult(<< Candidate(<< TextPart(TextOf(5)) >>), Candidate(<< BinPart(DataB, Jpeg) >>) >>)}

GenOutcomes ==
    {Throw(Error(m)) : m \in ThrownMessages} \cup {Return(r) : r \in ReqGenResults}

----------------------------------------------------------------------------
(* 6) MAIN ENDPOINT: /api/design *)

\* what res.status(code).json(obj) writes
Response(code, obj) == [status |-> code, json |-> JsonObject(obj)]

\* the first test without its trim
PromptRejected_NoTrim(p) == ~Truthy(p) \/ ~IsString(p)

\* the first test of the handler, server.js:187
PromptRejected(p) == ~Truthy(p) \/ ~IsString(p) \/ ~Truthy(Str(Trim(p.v)))

\* the second test of the handler, server.js:194
SlabRejected(u) == ~Truthy(u)

\* the fallback text reported whatever the error says
CaughtMessage_AlwaysFallback(e) == Str(FallbackMsg)

\* err.message || "Gemini 3 Pro Image request failed ..."
CaughtMessage(e) == IF Truthy(e.message) THEN e.message ELSE Str(FallbackMsg)

\* the object of the success response
SuccessBody(img, p, u, l) ==
    [ok |-> True,
     imageBase64 |-> img.imageBase64,
     mimeType |-> img.mimeType,
     model |-> Str(MODEL_NAME),
     received |-> JsonObject([prompt |-> p, slabImageUrl |-> u, slabLabel |-> l])]

\* the catch block of the handler
Catch(e) ==
    /\ err' = e
    /\ sent' = Append(sent, Response(500, [ok |-> False, error |-> CaughtMessage(e)]))
    /\ pc' = "Failed"
    /\ awaiting' = "none"

----------------------------------------------------------------------------
(* 1) ENV + GEMINI CLIENT, and 7) START SERVER, in server.js and in the other
   server files of the repository *)

\* the server files: server.js, and the files gathered in src/unnamed, each
\* named by the line at which it starts
Variants ==
    {"server.js", "part_000", "part_001:1", "part_001:248", "part_001:476",
     "part_002:1", "part_002:144"}

\* the files whose top level ends with process.exit(1) when the key is falsy
FailFastVariants ==
    {"server.js", "part_001:1", "part_001:248", "part_001:476", "part_002:1"}

\* what process.env can hold for a credential variable: nothing, "", a key
EnvValues == {Undef, Str(<< >>), Str(<< "k", "e", "y" >>)}

Envs ==
    [{"GEMINI_API_KEY", "GOOGLE_API_KEY", "GOOGLE_GENAI_API_KEY"} -> EnvValues]

\* process.env.GEMINI_API_KEY || process.env.GOOGLE_API_KEY ||
\* process.env.GOOGLE_GENAI_API_KEY
GEMINI_API_KEY(env) ==
    IF Truthy(env["GEMINI_API_KEY"]) THEN env["GEMINI_API_KEY"]
    ELSE IF Truthy(env["GOOGLE_API_KEY"]) THEN env["GOOGLE_API_KEY"]
    ELSE env["GOOGLE_GENAI_API_KEY"]

\* the credential a server file hands to its client
CredentialOf(variant, env) ==
    CASE variant = "part_000" -> env["GOOGLE_API_KEY"]
      [] variant = "part_002:144" -> env["GEMINI_API_KEY"]
      [] OTHER -> GEMINI_API_KEY(env)

\* if (!GEMINI_API_KEY) { ...; process.exit(1); }
ExitsAtStartup(variant, env) ==
    variant \in FailFastVariants /\ ~Truthy(CredentialOf(variant, env))

\* the top level of the file runs up to the creation of the client
CheckCredential ==
    /\ server.phase = "loading"
    /\ server' = [server EXCEPT !.phase = IF ExitsAtStartup(server.variant, server.env)
                                          THEN "exited" ELSE "configured"]
    /\ UNCHANGED << pc, awaiting, body, prompt, slabImageUrl, slabLabel, httpsUrl, resp,
                    slabBase64, slabMime, finalPrompt, result, image, err, calls, sent, probe, frames >>

\* app.listen(PORT, ...)
Listen ==
    /\ server.phase = "configured"
    /\ server' = [server EXCEPT !.phase = "listening"]
    /\ UNCHANGED << pc, awaiting, body, prompt, slabImageUrl, slabLabel, httpsUrl, resp,
                    slabBase64, slabMime, finalPrompt, result, image, err, calls, sent, probe, frames >>

\* server.js, started with its key, is listening
Listening ==
    server = [variant |-> "server.js",
              env |-> [k \in {"GEMINI_API_KEY", "GOOGLE_API_KEY", "GOOGLE_GENAI_API_KEY"} |->
                          IF k = "GEMINI_API_KEY" THEN Str(<< "k", "e", "y" >>) ELSE Undef],
              phase |-> "listening"]

\* no request has arrived yet
Idle ==
    /\ pc = "idle"
    /\ awaiting = "none"
    /\ body = Undef
    /\ prompt = Undef
    /\ slabImageUrl = Undef
    /\ slabLabel = Undef
    /\ httpsUrl = Undef
    /\ resp = Undef
    /\ slabBase64 = Undef
    /\ slabMime = Undef
    /\ finalPrompt = Undef
    /\ result = Undef
    /\ image = Undef
    /\ err = Undef
    /\ calls = << >>
    /\ sent = << >>

\* a single invocation of the handler
Alone == frames = [running |-> 1, parked |-> << >>]

Init ==
    /\ Idle
    /\ Listening
    /\ Alone
    /\ probe = [fn |-> "none"]

\* a request arrives; const { prompt, slabImageUrl, slabLabel } = req.body || {}
Receive(b) ==
    /\ pc = "idle"
    /\ probe.fn = "none"
    /\ server.phase = "listening"
    /\ body' = b
    /\ LET o == IF Truthy(b) THEN b ELSE [k \in {} |-> Undef]
       IN /\ prompt' = Get(o, "prompt")
          /\ slabImageUrl' = Get(o, "slabImageUrl")
          /\ slabLabel' = Get(o, "slabLabel")
    /\ pc' = "Validating"
    /\ UNCHANGED << awaiting, httpsUrl, resp, slabBase64, slabMime, finalPrompt, result,
                    image, err, calls, sent, probe, server, frames >>

\* the validation without its return statements: the handler goes on after
\* writing the 400
Validate_NoReturn ==
    /\ pc = "Validating"
    /\ IF PromptRejected(prompt)
       THEN sent' = Append(sent, Response(400, [ok |-> False, error |-> Str(PromptEmptyMsg)]))
       ELSE IF SlabRejected(slabImageUrl)
       THEN sent' = Append(sent, Response(400, [ok |-> False, error |-> Str(SlabMissingMsg)]))
       ELSE sent' = sent
    /\ pc' = "Resolving"
    /\ UNCHANGED << awaiting, body, prompt, slabImageUrl, slabLabel, httpsUrl, resp,
                    slabBase64, slabMime, finalPrompt, result, image, err, calls, probe, server, frames >>

Validate ==
    /\ pc = "Validating"
    /\ IF PromptRejected(prompt)
       THEN /\ sent' = Append(sent, Response(400, [ok |-> False, error |-> Str(PromptEmptyMsg)]))
            /\ pc' = "Failed"
       ELSE IF SlabRejected(slabImageUrl)
       THEN /\ sent' = Append(sent, Response(400, [ok |-> False, error |-> Str(SlabMissingMsg)]))
            /\ pc' = "Failed"
       ELSE /\ pc' = "Resolving"
            /\ sent' = sent
    /\ UNCHANGED << awaiting, body, prompt, slabImageUrl, slabLabel, httpsUrl, resp,
                    slabBase64, slabMime, finalPrompt, result, image, err, calls, probe, server, frames >>

Resolve ==
    /\ pc = "Resolving"
    /\ httpsUrl' = wixToHttps(slabImageUrl)
    /\ IF ~Truthy(httpsUrl')
       THEN Catch(Error(ConvertFailMsg))
       ELSE /\ pc' = "Fetching"
            /\ UNCHANGED << awaiting, err, sent >>
    /\ UNCHANGED << body, prompt, slabImageUrl, slabLabel, resp, slabBase64, slabMime,
                    finalPrompt, result, image, calls, probe, server, frames >>

\* downloadImageToBase64: const resp = await fetch(url), the call
FetchCall ==
    /\ pc = "Fetching"
    /\ awaiting = "none"
    /\ calls' = Append(calls, [api |-> "fetch", url |-> httpsUrl])
    /\ awaiting' = "fetch"
    /\ UNCHANGED << pc, body, prompt, slabImageUrl, slabLabel, httpsUrl, resp, slabBase64,
                    slabMime, finalPrompt, result, image, err, sent, probe, server, frames >>

\* a rejected fetch tried once more before giving up
FetchReturn_Retry(o) ==
    /\ pc = "Fetching"
    /\ awaiting = "fetch"
    /\ IF o.threw
       THEN IF Len(calls) < 2
            THEN /\ awaiting' = "none"
                 /\ UNCHANGED << pc, err, sent, resp >>
            ELSE /\ Catch(o.error)
                 /\ resp' = resp
       ELSE /\ resp' = o.value
            /\ awaiting' = IF RespOk(o.value) THEN "arrayBuffer" ELSE "text"
            /\ UNCHANGED << pc, err, sent >>
    /\ UNCHANGED << body, prompt, slabImageUrl, slabLabel, httpsUrl, slabBase64, slabMime,
                    finalPrompt, result, image, calls, probe, server, frames >>

\* await fetch(url) settles
FetchReturn(o) ==
    /\ pc = "Fetching"
    /\ awaiting = "fetch"
    /\ IF o.threw
       THEN /\ Catch(o.error)
            /\ resp' = resp
       ELSE /\ resp' = o.value
            /\ awaiting' = IF RespOk(o.value) THEN "arrayBuffer" ELSE "text"
            /\ UNCHANGED << pc, err, sent >>
    /\ UNCHANGED << body, prompt, slabImageUrl, slabLabel, httpsUrl, slabBase64, slabMime,
                    finalPrompt, result, image, calls, probe, server, frames >>

\* a non-success status tolerated: the handler goes on without a slab image
TextReturn_Fallback ==
    /\ pc = "Fetching"
    /\ awaiting = "text"
    /\ slabBase64' = Str(<< >>)
    /\ slabMime' = Str(DefaultSlabMime)
    /\ pc' = "Composing"
    /\ awaiting' = "none"
    /\ UNCHANGED << body, prompt, slabImageUrl, slabLabel, httpsUrl, resp, finalPrompt,
                    result, image, err, calls, sent, probe, server, frames >>

\* await resp.text().catch(() => "") settles; the error is thrown and caught
TextReturn ==
    /\ pc = "Fetching"
    /\ awaiting = "text"
    /\ Catch(DownloadError(resp))
    /\ UNCHANGED << body, prompt, slabImageUrl, slabLabel, httpsUrl, resp, slabBase64,
                    slabMime, finalPrompt, result, image, calls, probe, server, frames >>

\* the download handing over to the generation without the prompt being composed
ArrayBufferReturn_SkipCompose ==
    /\ pc = "Fetching"
    /\ awaiting = "arrayBuffer"
    /\ IF resp.bufferRejects
       THEN /\ \E m \in ThrownMessages : Catch(Error(m))
            /\ UNCHANGED << slabBase64, slabMime >>
       ELSE /\ slabBase64' = Str(Base64(resp.bytes))
            /\ slabMime' = SlabMimeOf(resp)
            /\ pc' = "Generating"
            /\ awaiting' = "none"
            /\ UNCHANGED << err, sent >>
    /\ UNCHANGED << body, prompt, slabImageUrl, slabLabel, httpsUrl, resp, finalPrompt,
                    result, image, calls, probe, server, frames >>

\* await resp.arrayBuffer() settles
ArrayBufferReturn ==
    /\ pc = "Fetching"
    /\ awaiting = "arrayBuffer"
    /\ IF resp.bufferRejects
       THEN /\ \E m \in ThrownMessages : Catch(Error(m))
            /\ UNCHANGED << slabBase64, slabMime >>
       ELSE /\ slabBase64' = Str(Base64(resp.bytes))
            /\ slabMime' = SlabMimeOf(resp)
            /\ pc' = "Composing"
            /\ awaiting' = "none"
            /\ UNCHANGED << err, sent >>
    /\ UNCHANGED << body, prompt, slabImageUrl, slabLabel, httpsUrl, resp, finalPrompt,
                    result, image, calls, probe, server, frames >>

Compose ==
    /\ pc = "Composing"
    /\ finalPrompt' = ComposePrompt(prompt, slabLabel)
    /\ pc' = "Generating"
    /\ UNCHANGED << awaiting, body, prompt, slabImageUrl, slabLabel, httpsUrl, resp,
                    slabBase64, slabMime, result, image, err, calls, sent, probe, server, frames >>

\* generateWithGeminiFlashImage: const result = await model.generateContent(...), the call
GenerateCall ==
    /\ pc = "Generating"
    /\ awaiting = "none"
    /\ calls' = Append(calls, [api |-> "generateContent",
                               request |-> GenRequest(finalPrompt, slabBase64, slabMime)])
    /\ awaiting' = "generateContent"
    /\ UNCHANGED << pc, body, prompt, slabImageUrl, slabLabel, httpsUrl, resp, slabBase64,
                    slabMime, finalPrompt, result, image, err, sent, probe, server, frames >>

\* await model.generateContent(...) settles
GenerateReturn(o) ==
    /\ pc = "Generating"
    /\ awaiting = "generateContent"
    /\ IF o.threw
       THEN /\ Catch(o.error)
            /\ UNCHANGED << result, image >>
       ELSE /\ result' = o.value
            /\ LET out == ExtractImage(o.value)
               IN IF out.threw
                  THEN /\ Catch(out.error)
                       /\ image' = image
                  ELSE /\ image' = out.value
                       /\ pc' = "Responding"
                       /\ awaiting' = "none"
                       /\ UNCHANGED << err, sent >>
    /\ UNCHANGED << body, prompt, slabImageUrl, slabLabel, httpsUrl, resp, slabBase64,
                    slabMime, finalPrompt, calls, probe, server, frames >>

\* the success response echoing the resolved URL instead of the reference
Respond_EchoResolved ==
    /\ pc = "Responding"
    /\ sent' = Append(sent, Response(200, SuccessBody(image, prompt, httpsUrl, slabLabel)))
    /\ pc' = "Done"
    /\ UNCHANGED << awaiting, body, prompt, slabImageUrl, slabLabel, httpsUrl, resp,
                    slabBase64, slabMime, finalPrompt, result, image, err, calls, probe, server, frames >>

\* return res.json({ ok: true, ... })
Respond ==
    /\ pc = "Responding"
    /\ sent' = Append(sent, Response(200, SuccessBody(image, prompt, slabImageUrl, slabLabel)))
    /\ pc' = "Done"
    /\ UNCHANGED << awaiting, body, prompt, slabImageUrl, slabLabel, httpsUrl, resp,
                    slabBase64, slabMime, finalPrompt, result, image, err, calls, probe, server, frames >>

Next ==
    \/ \E b \in Bodies : Receive(b)
    \/ Validate
    \/ Resolve
    \/ FetchCall
    \/ \E o \in FetchOutcomes : FetchReturn(o)
    \/ TextReturn
    \/ ArrayBufferReturn
    \/ Compose
    \/ GenerateCall
    \/ \E o \in GenOutcomes : GenerateReturn(o)
    \/ Respond

Spec == Init /\ [][Next]_vars

\* the event loop runs every continuation that is ready, and every outbound
\* call eventually settles
LiveSpec ==
    /\ Spec
    /\ WF_vars(Validate)
    /\ WF_vars(Resolve)
    /\ WF_vars(FetchCall)
    /\ WF_vars(\E o \in FetchOutcomes : FetchReturn(o))
    /\ WF_vars(TextReturn)
    /\ WF_vars(ArrayBufferReturn)
    /\ WF_vars(Compose)
    /\ WF_vars(GenerateCall)
    /\ WF_vars(\E o \in GenOutcomes : GenerateReturn(o))
    /\ WF_vars(Respond)

\* as LiveSpec, but the generation backend may never reply: the code sets no
\* timeout on model.generateContent, so nothing else settles that promise
NoReplySpec ==
    /\ Spec
    /\ WF_vars(Validate)
    /\ WF_vars(Resolve)
    /\ WF_vars(FetchCall)
    /\ WF_vars(\E o \in FetchOutcomes : FetchReturn(o))
    /\ WF_vars(TextReturn)
    /\ WF_vars(ArrayBufferReturn)
    /\ WF_vars(Compose)
    /\ WF_vars(GenerateCall)
    /\ WF_vars(Respond)

----------------------------------------------------------------------------
(* The helper functions taken on their own *)

handlerVars == << pc, awaiting, body, prompt, slabImageUrl, slabLabel, httpsUrl, resp,
                  slabBase64, slabMime, finalPrompt, result, image, err, calls, sent, server, frames >>

WixInputs == NonStrings \cup {Str(<< >>)} \cup {Str(s) : s \in UrlStrings(MaxTail)}

WixInit ==
    /\ Idle
    /\ Listening
    /\ Alone
    /\ probe \in {[fn |-> "wixToHttps", arg |-> a, done |-> FALSE, out |-> Undef] :
                    a \in WixInputs}

WixApply ==
    /\ probe.fn = "wixToHttps"
    /\ ~probe.done
    /\ probe' = [probe EXCEPT !.done = TRUE, !.out = wixToHttps(probe.arg)]
    /\ UNCHANGED handlerVars

WixNext == WixApply

WixSpec == WixInit /\ [][WixNext]_vars

ProbeParts ==
    {TextPart(TextOf(n)) : n \in {0, 1, SnippetLen, SnippetLen + 1, MaxTextLen}}
    \cup
    {TextPart(<< "d", "e", "s", "c" >>), BinPart(DataA, Png), BinPart(DataB, Jpeg),
     BinPart(DataC, Undef), BinPart(<< >>, Png), OtherPart}

PartLists(n) == UNION {[1..k -> ProbeParts] : k \in 0..n}

GenInputs ==
    MalformedResults \cup
    {GenResult(<< Candidate(ps) >> \o more) :
        ps \in PartLists(MaxParts),
        more \in {<< >>, << Candidate(<< BinPart(DataB, Jpeg) >>) >>}}

GenInit ==
    /\ Idle
    /\ Listening
    /\ Alone
    /\ probe \in {[fn |-> "ExtractImage", arg |-> r, done |-> FALSE, out |-> Undef] :
                    r \in GenInputs}

GenApply ==
    /\ probe.fn = "ExtractImage"
    /\ ~probe.done
    /\ probe' = [probe EXCEPT !.done = TRUE, !.out = ExtractImage(probe.arg)]
    /\ UNCHANGED handlerVars

GenNext == GenApply

GenSpec == GenInit /\ [][GenNext]_vars

\* a server file is started in some environment
StartInit ==
    /\ Idle
    /\ Alone
    /\ probe = [fn |-> "none"]
    /\ server \in {[variant |-> v, env |-> e, phase |-> "loading"] :
                     v \in Variants, e \in Envs}

StartNext ==
    \/ CheckCredential
    \/ Listen

StartSpec == StartInit /\ [][StartNext]_vars

----------------------------------------------------------------------------
(* Several requests in flight: each invocation of the async handler has its
   own locals; the event loop runs one continuation at a time and may turn
   to another invocation whenever the running one is suspended on an await
   or has returned *)

\* the locals of the invocation that is running
Frame ==
    [pc |-> pc, awaiting |-> awaiting, body |-> body, prompt |-> prompt,
     slabImageUrl |-> slabImageUrl, slabLabel |-> slabLabel, httpsUrl |-> httpsUrl,
     resp |-> resp, slabBase64 |-> slabBase64, slabMime |-> slabMime,
     finalPrompt |-> finalPrompt, result |-> result, image |-> image, err |-> err,
     calls |-> calls, sent |-> sent]

\* the locals of an invocation that has not started
IdleFrame ==
    [pc |-> "idle", awaiting |-> "none", body |-> Undef, prompt |-> Undef,
     slabImageUrl |-> Undef, slabLabel |-> Undef, httpsUrl |-> Undef, resp |-> Undef,
     slabBase64 |-> Undef, slabMime |-> Undef, finalPrompt |-> Undef, result |-> Undef,
     image |-> Undef, err |-> Undef, calls |-> << >>, sent |-> << >>]

ReqIds == 1..MaxRequests

\* the locals of invocation i
FrameOf(i) == IF i = frames.running THEN Frame ELSE frames.parked[i]

\* prompt, slabImageUrl and slabLabel held in bindings shared by all invocations
Switch_SharedBody(i) ==
    /\ i \in DOMAIN frames.parked
    /\ awaiting # "none" \/ pc \in {"idle", "Done", "Failed"}
    /\ frames' = [running |-> i,
                  parked |-> [j \in (DOMAIN frames.parked \ {i}) \cup {frames.running} |->
                                 IF j = frames.running THEN Frame ELSE frames.parked[j]]]
    /\ pc' = frames.parked[i].pc
    /\ awaiting' = frames.parked[i].awaiting
    /\ body' = frames.parked[i].body
    /\ httpsUrl' = frames.parked[i].httpsUrl
    /\ resp' = frames.parked[i].resp
    /\ slabBase64' = frames.parked[i].slabBase64
    /\ slabMime' = frames.parked[i].slabMime
    /\ finalPrompt' = frames.parked[i].finalPrompt
    /\ result' = frames.parked[i].result
    /\ image' = frames.parked[i].image
    /\ err' = frames.parked[i].err
    /\ calls' = frames.parked[i].calls
    /\ sent' = frames.parked[i].sent
    /\ UNCHANGED << prompt, slabImageUrl, slabLabel, probe, server >>

\* the event loop leaves the running invocation at an await (server.js:211,
\* 262) or after its return, and runs invocation i with i's own locals
Switch(i) ==
    /\ i \in DOMAIN frames.parked
    /\ awaiting # "none" \/ pc \in {"idle", "Done", "Failed"}
    /\ frames' = [running |-> i,
                  parked |-> [j \in (DOMAIN frames.parked \ {i}) \cup {frames.running} |->
                                 IF j = frames.running THEN Frame ELSE frames.parked[j]]]
    /\ pc' = frames.parked[i].pc
    /\ awaiting' = frames.parked[i].awaiting
    /\ body' = frames.parked[i].body
    /\ prompt' = frames.parked[i].prompt
    /\ slabImageUrl' = frames.parked[i].slabImageUrl
    /\ slabLabel' = frames.parked[i].slabLabel
    /\ httpsUrl' = frames.parked[i].httpsUrl
    /\ resp' = frames.parked[i].resp
    /\ slabBase64' = frames.parked[i].slabBase64
    /\ slabMime' = frames.parked[i].slabMime
    /\ finalPrompt' = frames.parked[i].finalPrompt
    /\ result' = frames.parked[i].result
    /\ image' = frames.parked[i].image
    /\ err' = frames.parked[i].err
    /\ calls' = frames.parked[i].calls
    /\ sent' = frames.parked[i].sent
    /\ UNCHANGED << probe, server >>

\* the requests, the asset host's answers and the backend's answers taken
\* when several requests are in flight
ConcBodies ==
    {[prompt |-> Str(<< "Z", "q" >>), slabImageUrl |-> Str(HttpsPrefix \o << "a" >>),
      slabLabel |-> Undef],
     [prompt |-> Str(<< " ", "Z", "q", "\n" >>), slabImageUrl |-> Str(WixV1Prefix \o << "a" >>),
      slabLabel |-> Str(<< "Q", "-", "7" >>)],
     [prompt |-> Str(<< " " >>), slabImageUrl |-> Str(WixScheme), slabLabel |-> Undef]}

ConcFetchOutcomes ==
    {o \in FetchOutcomes :
        IF o.threw THEN o.error.message.v # << >>
        ELSE \/ o.value.status = 404 /\ o.value.text # << >> /\ ~o.value.textRejects
             \/ o.value.status = 200 /\ o.value.bytes # << >> /\ o.value.contentType = Null}

ConcGenOutcomes ==
    {Throw(Error(<< >>)),
     Return(GenResult(<< Candidate(<< TextPart(TextOf(5)) >>) >>)),
     Return(GenResult(<< Candidate(<< BinPart(DataA, Png) >>) >>)),
     Return(GenResult(<< Candidate(<< BinPart(DataC, Undef) >>) >>))}

ConcInit ==
    /\ Idle
    /\ Listening
    /\ probe = [fn |-> "none"]
    /\ frames = [running |-> 1, parked |-> [i \in ReqIds \ {1} |-> IdleFrame]]

ConcNext ==
    \/ \E b \in ConcBodies : Receive(b)
    \/ Validate
    \/ Resolve
    \/ FetchCall
    \/ \E o \in ConcFetchOutcomes : FetchReturn(o)
    \/ TextReturn
    \/ ArrayBufferReturn
    \/ Compose
    \/ GenerateCall
    \/ \E o \in ConcGenOutcomes : GenerateReturn(o)
    \/ Respond
    \/ \E i \in ReqIds : Switch(i)

ConcSpec == ConcInit /\ [][ConcNext]_vars

----------------------------------------------------------------------------
(* Vocabulary of the properties *)

\* a string made of white space only, the empty string included
AllWhiteSpace(s) == \A i \in 1..Len(s) : s[i] \in WhiteSpace

\* a request field that is missing, empty or white space only
IsBlank(x) == Nullish(x) \/ (IsString(x) /\ AllWhiteSpace(x.v))

\* the fields of the request as the client sent them
SentPrompt == Get(body, "prompt")
SentSlabImageUrl == Get(body, "slabImageUrl")
SentSlabLabel == Get(body, "slabLabel")

\* the stages that follow Validating
Downstream == {"Resolving", "Fetching", "Composing", "Generating", "Responding", "Done"}

FetchIssued == \E i \in 1..Len(calls) : calls[i].api = "fetch"
GenerationIssued == \E i \in 1..Len(calls) : calls[i].api = "generateContent"

\* an absolute http(s) URL
IsHttpUrl(s) == StartsWith(s, HttpPrefix) \/ StartsWith(s, HttpsPrefix)

\* a reference wix:image://v1/<mediaId>... with a media identifier
WellFormedWix(s) ==
    /\ StartsWith(s, WixV1Prefix)
    /\ Len(s) > Len(WixV1Prefix)
    /\ s[Len(WixV1Prefix) + 1] \notin {"/", "#"}

\* a reference of one of the two recognized forms
Conforming(x) == IsString(x) /\ (IsHttpUrl(x.v) \/ WellFormedWix(x.v))

\* the text after v1/ up to the next "/" or "#"
MediaIdOf(s) ==
    LET rest == SubSeq(s, Len(WixV1Prefix) + 1, Len(s))
        stops == {i \in 1..Len(rest) : rest[i] \in {"/", "#"}}
    IN IF stops = {} THEN rest
       ELSE SubSeq(rest, 1, (CHOOSE i \in stops : \A j \in stops : i <= j) - 1)

\* sub occurs in s
Contains(s, sub) ==
    \E i \in 1..(Len(s) - Len(sub) + 1) : SubSeq(s, i, i + Len(sub) - 1) = sub

\* the request passed both tests of Validating
PassedValidation ==
    /\ pc \notin {"idle", "Validating"}
    /\ ~PromptRejected(prompt)
    /\ ~SlabRejected(slabImageUrl)

\* the generation response has a first candidate with a list of parts
HasFirstParts(res) ==
    /\ ~Nullish(res)
    /\ ~Nullish(res.response)
    /\ ~Nullish(res.response.candidates)
    /\ Len(res.response.candidates.items) > 0
    /\ ~Nullish(res.response.candidates.items[1])
    /\ ~Nullish(res.response.candidates.items[1].content)
    /\ ~Nullish(res.response.candidates.items[1].content.parts)

FirstParts(res) == res.response.candidates.items[1].content.parts.items

\* the positions of the parts that carry inline binary data
Carriers(ps) ==
    {i \in 1..Len(ps) : ps[i].inlineData # Undef /\ ps[i].inlineData.data # Str(<< >>)}

\* the positions of the parts that carry text
TextCarriers(ps) == {i \in 1..Len(ps) : IsString(ps[i].text) /\ ps[i].text.v # << >>}

\* the positions at which sub occurs in s
Occurrences(s, sub) ==
    {i \in 1..(Len(s) - Len(sub) + 1) :
        /\ (Len(sub) = 0 \/ s[i] = sub[1])
        /\ SubSeq(s, i, i + Len(sub) - 1) = sub}

\* the stages of a request, in their order
StageOrder ==
    << "Validating", "Resolving", "Fetching", "Composing", "Generating", "Responding" >>

\* the number of calls issued to an outbound interface
CallCount(api) == Cardinality({i \in 1..Len(calls) : calls[i].api = api})

\* the asset fetch of the request has completed successfully
FetchSucceeded ==
    /\ FetchIssued
    /\ resp # Undef
    /\ resp.status \in 200..299
    /\ slabBase64 # Undef

----------------------------------------------------------------------------
(* Properties of the request handler and of its helpers *)

\* C1: a request whose prompt is missing, not a string, empty or white space
\* only is answered with 400 {ok:false, error:"Prompt cannot be empty."}, and
\* no outbound call (asset fetch or generation call) is made for it.
C1_BlankPromptRejected ==
    (pc # "idle" /\ (~IsString(SentPrompt) \/ IsBlank(SentPrompt))) =>
        /\ calls = << >>
        /\ pc \in {"Validating", "Failed"}
        /\ pc = "Failed" =>
              sent = << [status |-> 400,
                         json |-> [ok |-> False, error |-> Str(PromptEmptyMsg)]] >>

C1_Witness ==
    /\ pc = "Failed"
    /\ SentPrompt = Str(<< "\n", " " >>)
    /\ Conforming(SentSlabImageUrl)
    /\ Len(sent) = 1
    /\ sent[1].status = 400

\* C2: no stage after Validating has started unless both prompt and
\* slabImageUrl are present and non-blank; a slabImageUrl that is missing,
\* empty or white space only is rejected in Validating with 400.
C2_DownstreamNeedsBothFields ==
    /\ pc \in Downstream => (~IsBlank(SentPrompt) /\ ~IsBlank(SentSlabImageUrl))
    /\ (pc = "Failed" /\ IsBlank(SentSlabImageUrl)) =>
          (httpsUrl = Undef /\ Len(sent) = 1 /\ sent[1].status = 400)

\* C3: for a slabImageUrl that is neither an absolute http(s) URL nor a
\* well-formed wix:image://v1/<mediaId> reference, wixToHttps yields null, the
\* request fails and the asset fetch is never issued.
C3_NonConformingNeverFetched ==
    (pc \notin {"idle", "Validating"} /\ ~Conforming(SentSlabImageUrl)) =>
        /\ ~FetchIssued
        /\ pc \in {"Resolving", "Failed"}
        /\ httpsUrl \in {Undef, Null}

\* C4: for an input that begins with http:// or https://, wixToHttps returns
\* exactly the input string.
C4_HttpUnchanged ==
    (probe.fn = "wixToHttps" /\ probe.done /\ IsString(probe.arg)
        /\ IsHttpUrl(probe.arg.v)) =>
        probe.out = probe.arg

C4_Witness ==
    /\ probe.fn = "wixToHttps"
    /\ probe.done
    /\ probe.arg = Str(HttpsPrefix \o << "a", "/", "#" >>)
    /\ probe.out = probe.arg

\* C5: for a reference wix:image://v1/<mediaId>[/<displayName>][#<metadata>],
\* wixToHttps returns https://static.wixstatic.com/media/<mediaId>?raw=1 where
\* <mediaId> is the text after v1/ up to the next "/" or "#".
C5_MediaIdStopsAtSlashOrHash ==
    (probe.fn = "wixToHttps" /\ probe.done /\ IsString(probe.arg)
        /\ WellFormedWix(probe.arg.v)) =>
        probe.out = Str(StaticMediaBase \o MediaIdOf(probe.arg.v) \o RawSuffix)

\* C6: when validation, resolution, asset fetch and generation all succeed, the
\* response is 200 with ok:true, the imageBase64 and mimeType extracted by the
\* Generation Client, model = MODEL_NAME and received = the request fields
\* exactly as sent (the original reference; slabLabel undefined when absent).
C6_SuccessResponse ==
    /\ image # Undef => (pc \in {"Responding", "Done"} /\ image = ExtractImage(result).value)
    /\ pc = "Done" =>
          /\ Len(sent) = 1
          /\ sent[1].status = 200
          /\ DOMAIN sent[1].json = {"ok", "imageBase64", "mimeType", "model", "received"}
          /\ sent[1].json.ok = True
          /\ sent[1].json.imageBase64 = image.imageBase64
          /\ sent[1].json.mimeType = image.mimeType
          /\ sent[1].json.model = Str(MODEL_NAME)
          /\ Get(sent[1].json.received, "prompt") = SentPrompt
          /\ Get(sent[1].json.received, "slabImageUrl") = SentSlabImageUrl
          /\ Get(sent[1].json.received, "slabLabel") = SentSlabLabel

C6_Witness ==
    /\ pc = "Done"
    /\ SentSlabLabel = Undef
    /\ IsString(SentSlabImageUrl)
    /\ WellFormedWix(SentSlabImageUrl.v)
    /\ httpsUrl # SentSlabImageUrl
    /\ Len(sent) = 1
    /\ "slabLabel" \notin DOMAIN sent[1].json.received

\* C7: for a request that passed validation, a failure in Resolving, Fetching,
\* Composing or Generating produces 500 {ok:false, error} whose error is the
\* message of the originating error (the fixed fallback text only when that
\* error has no message); no such failure is reported with 200 or 400.
C7_DownstreamFailureIs500 ==
    /\ (PassedValidation /\ pc = "Failed") =>
          /\ Len(sent) = 1
          /\ sent[1].status = 500
          /\ sent[1].json = [ok |-> False,
                             error |-> IF err.message.v # << >> THEN err.message
                                       ELSE Str(FallbackMsg)]
          /\ httpsUrl = Null => err = Error(ConvertFailMsg)
          /\ (resp # Undef /\ resp.status \notin 200..299) =>
                err = Error(DownloadFailPrefix \o NatToStr(resp.status) \o << " " >>
                            \o resp.statusText)
    /\ (PassedValidation /\ pc \notin {"Failed", "Done"}) => sent = << >>
    /\ PassedValidation =>
          \A i \in 1..Len(sent) :
              /\ sent[i].status # 400
              /\ sent[i].status = 200 => (pc = "Done" /\ image # Undef)

C7_Witness ==
    /\ PassedValidation
    /\ pc = "Failed"
    /\ GenerationIssued
    /\ err = Error(<< >>)
    /\ Len(sent) = 1
    /\ sent[1].json.error = Str(FallbackMsg)

\* C8: provided each outbound call eventually returns or fails, every request
\* receives exactly one response, never zero and never two, and every
\* non-success response is a single JSON object with ok:false and a string
\* error.
C8_ExactlyOneResponse ==
    /\ [](Len(sent) <= 1)
    /\ [](pc \in {"Done", "Failed"} => Len(sent) = 1)
    /\ [](\A i \in 1..Len(sent) :
            sent[i].status # 200 =>
                /\ DOMAIN sent[i].json = {"ok", "error"}
                /\ sent[i].json.ok = False
                /\ IsString(sent[i].json.error))
    /\ (pc = "Validating") ~> (pc \in {"Done", "Failed"} /\ Len(sent) = 1)

C8_Witness ==
    /\ pc = "Failed"
    /\ FetchIssued
    /\ GenerationIssued
    /\ Len(sent) = 1
    /\ sent[1].status = 500

\* C9: the extraction returns the data and mime type of the earliest part of
\* the first candidate that carries inline binary data, ignoring text parts
\* before it, and never data of a later part or of another candidate.
C9_EarliestImagePartOfFirstCandidate ==
    (probe.fn = "ExtractImage" /\ probe.done) =>
        IF HasFirstParts(probe.arg) /\ Carriers(FirstParts(probe.arg)) # {}
        THEN LET ps == FirstParts(probe.arg)
                 first == CHOOSE i \in Carriers(ps) : \A j \in Carriers(ps) : i <= j
             IN /\ ~probe.out.threw
                /\ probe.out.value.imageBase64 = ps[first].inlineData.data
                /\ ps[first].inlineData.mimeType # Undef =>
                      probe.out.value.mimeType = ps[first].inlineData.mimeType
        ELSE probe.out.threw

C9_Witness ==
    /\ probe.fn = "ExtractImage"
    /\ probe.done
    /\ probe.arg = GenResult(<< Candidate(<< TextPart(<< "d", "e", "s", "c" >>),
                                              BinPart(DataA, Png), BinPart(DataB, Jpeg) >>) >>)
    /\ probe.out = Return([imageBase64 |-> Str(DataA), mimeType |-> Png])

\* C10: when the first candidate has parts but none carries inline binary data,
\* the extraction fails and, if some part carries text, the error detail
\* contains the first text part's content cut to its first 100 characters; the
\* handler answers 500 with that detail in the error field and no image.
C10_TextOnlyResponseFails ==
    (HasFirstParts(result) /\ Carriers(FirstParts(result)) = {}) =>
        /\ pc = "Failed"
        /\ image = Undef
        /\ Len(sent) = 1
        /\ sent[1].status = 500
        /\ sent[1].json.ok = False
        /\ "imageBase64" \notin DOMAIN sent[1].json
        /\ StartsWith(sent[1].json.error.v, GenFailedPrefix)
        /\ TextCarriers(FirstParts(result)) # {} =>
              LET texts == TextCarriers(FirstParts(result))
                  tx == FirstParts(result)[CHOOSE i \in texts : \A j \in texts : i <= j].text.v
              IN /\ Contains(sent[1].json.error.v, SubSeq(tx, 1, Min(100, Len(tx))))
                 /\ Len(tx) > 100 => ~Contains(sent[1].json.error.v, SubSeq(tx, 1, 101))

C10_Witness ==
    /\ pc = "Failed"
    /\ HasFirstParts(result)
    /\ FirstParts(result) = << TextPart(<< >>), TextPart(TextOf(101)) >>
    /\ Len(sent) = 1
    /\ Contains(sent[1].json.error.v, SubSeq(TextOf(101), 1, 100))

\* C11: the composite prompt contains the caller's prompt as a literal
\* substring and, when a label is given, the label; the caller's prompt occurs
\* after the whole material-fidelity block, which follows the rendering-style
\* block.
C11_PromptAfterMaterialBlock ==
    finalPrompt # Undef =>
        LET fp == finalPrompt.v
            material == Occurrences(fp, materialBlock(SentSlabLabel))
            style == Occurrences(fp, baseStyle)
        IN /\ Truthy(SentSlabLabel) => Occurrences(fp, ToStr(SentSlabLabel)) # {}
           /\ \E b \in style : \E m \in material : \E u \in Occurrences(fp, SentPrompt.v) :
                 /\ b + Len(baseStyle) <= m
                 /\ m + Len(materialBlock(SentSlabLabel)) <= u

\* C12: the complete prompt text accepted by validation, leading and trailing
\* white space included, appears character for character in the composite
\* prompt sent to the generation model.
C12_PromptVerbatim ==
    \A i \in 1..Len(calls) :
        calls[i].api = "generateContent" =>
            \E j \in 1..Len(calls[i].request.contents.items[1].parts.items) :
                LET part == calls[i].request.contents.items[1].parts.items[j]
                IN /\ "text" \in DOMAIN part
                   /\ Occurrences(part.text.v, SentPrompt.v) # {}

\* C13: the service never serves requests without a credential: in server.js
\* and in every other server file, when none of the credential environment
\* variables is set the process terminates at startup before it listens.
C13_NoCredentialNoListening ==
    server.phase = "listening" =>
        \E k \in DOMAIN server.env : Truthy(server.env[k])

\* C14: the generation call has a bounded wait: even if the backend never
\* replies, the call is abandoned and the request is eventually answered
\* (Failed on a timeout), rather than staying in Generating forever.
C14_GenerationWaitIsBounded ==
    (awaiting = "generateContent") ~> (pc \in {"Failed", "Done"} /\ Len(sent) = 1)

\* C15: within one request the stages run strictly in the order Validating,
\* Resolving, Fetching, Composing, Generating, Responding, none skipped or
\* repeated; the generation call is never started before the asset fetch has
\* completed successfully; the only other transition is to Failed.
C15_StagesInOrder ==
    /\ [][pc' # pc =>
            \/ pc = "idle" /\ pc' = StageOrder[1]
            \/ \E k \in 1..(Len(StageOrder) - 1) : pc = StageOrder[k] /\ pc' = StageOrder[k + 1]
            \/ pc = StageOrder[Len(StageOrder)] /\ pc' = "Done"
            \/ \E k \in 1..Len(StageOrder) : pc = StageOrder[k] /\ pc' = "Failed"]_vars
    /\ [](GenerationIssued =>
            (FetchSucceeded /\ finalPrompt # Undef /\ calls[1].api = "fetch"
             /\ calls[2].api = "generateContent"))

C15_Witness ==
    /\ pc = "Done"
    /\ Len(calls) = 2
    /\ calls[1].api = "fetch"
    /\ calls[2].api = "generateContent"
    /\ Len(sent) = 1

\* C16: once a stage of a request fails, no later stage runs and nothing
\* recovers: after a resolution failure no asset fetch is issued, and after a
\* resolution or asset-fetch failure (a non-success status included) the
\* generation backend is never called.
C16_FailureStopsThePipeline ==
    /\ [][pc = "Failed" => (pc' = "Failed" /\ calls' = calls /\ sent' = sent)]_vars
    /\ [](httpsUrl = Null => (calls = << >> /\ pc = "Failed"))
    /\ []((resp # Undef /\ resp.status \notin 200..299) => ~GenerationIssued)
    /\ []((pc = "Failed" /\ ~FetchSucceeded) => ~GenerationIssued)

C16_Witness ==
    /\ pc = "Failed"
    /\ resp # Undef
    /\ resp.status = 404
    /\ calls = << [api |-> "fetch", url |-> httpsUrl] >>
    /\ Len(sent) = 1

\* C17: no retries: over the whole execution of a request at most one GET is
\* issued to the asset host and at most one generateContent call to the
\* generation backend, whatever those calls return.
C17_NoRetries ==
    /\ CallCount("fetch") <= 1
    /\ CallCount("generateContent") <= 1
    /\ Len(calls) = CallCount("fetch") + CallCount("generateContent")

C17_Witness ==
    /\ pc = "Failed"
    /\ CallCount("fetch") = 1
    /\ CallCount("generateContent") = 1
    /\ err = Error(<< "E", "C", "O", "N", "N", "R", "E", "S", "E", "T" >>)

\* C18: when the asset host answers with a non-success status the download
\* fails with an error carrying the status code and the status reason, and the
\* response to the caller does not depend on the upstream body: a request
\* that differs only in the body the asset host returned gets the same 500.
C18_UpstreamBodyNotForwarded ==
    (resp # Undef /\ resp.status \notin 200..299 /\ pc = "Failed") =>
        /\ Contains(err.message.v, NatToStr(resp.status))
        /\ Contains(err.message.v, resp.statusText)
        /\ Len(sent) = 1
        /\ sent[1].status = 500
        /\ sent[1].json.ok = False
        /\ resp.text # << >> => ~Contains(sent[1].json.error.v, resp.text)
        /\ \A other \in FetchResponses :
              (other.status = resp.status /\ other.statusText = resp.statusText) =>
                  sent[1] = Response(500, [ok |-> False,
                                           error |-> CaughtMessage(DownloadError(other))])

C18_Witness ==
    /\ pc = "Failed"
    /\ resp # Undef
    /\ resp.status = 404
    /\ resp.text = << "<", "p", ">" >>
    /\ Len(sent) = 1
    /\ sent[1].json.error.v = << "S", "l", "a", "b", " ", "i", "m", "a", "g", "e", " ", "d", "o", "w", "n", "l", "o", "a", "d", " ", "f", "a", "i", "l", "e", "d", ":", " ", "4", "0", "4", " ", "N", "o", "t", " ", "F", "o", "u", "n", "d" >>

\* C19: when the generation response is empty or malformed (no response
\* object, no candidates, an empty candidate list, a first candidate without
\* content or without a parts list) the generation fails with the
\* empty-response error and the request ends in HTTP 500 with ok:false, not
\* in a 200 and not in an error raised by reading a missing field.
C19_MalformedResponseIs500 ==
    [][\A o \in GenOutcomes :
          (GenerateReturn(o) /\ ~o.threw /\ ~HasFirstParts(o.value)) =>
              /\ pc' = "Failed"
              /\ err' = Error(EmptyResponseMsg)
              /\ image' = Undef
              /\ sent' = << [status |-> 500,
                             json |-> [ok |-> False, error |-> Str(EmptyResponseMsg)]] >>]_vars

C19_Witness ==
    /\ pc = "Failed"
    /\ GenerationIssued
    /\ result = [response |-> [candidates |-> Arr(<< [content |-> Undef],
                                                     Candidate(<< BinPart(DataB, Jpeg) >>) >>)]]
    /\ err = Error(EmptyResponseMsg)
    /\ Len(sent) = 1
    /\ sent[1].status = 500

\* C20: every generation request holds exactly one text part, the composite
\* prompt, and, if and only if slab bytes and a mime type are present, exactly
\* one inline-data part tagged with that mime type; the image part comes
\* first and the text part second.
C20_GenerationRequestShape ==
    \A i \in 1..Len(calls) :
        calls[i].api = "generateContent" =>
            LET ps == calls[i].request.contents.items[1].parts.items
                texts == {j \in 1..Len(ps) : "text" \in DOMAIN ps[j]}
                images == {j \in 1..Len(ps) : "inlineData" \in DOMAIN ps[j]}
            IN /\ Len(calls[i].request.contents.items) = 1
               /\ Cardinality(texts) = 1
               /\ \A j \in texts : ps[j].text = finalPrompt
               /\ Cardinality(images) = IF resp.bytes # << >> /\ Truthy(slabMime) THEN 1 ELSE 0
               /\ Len(ps) = Cardinality(texts) + Cardinality(images)
               /\ \A j \in images :
                     /\ ps[j].inlineData.mimeType = slabMime
                     /\ ps[j].inlineData.data = slabBase64
                     /\ \A k \in texts : j < k

C20_Witness ==
    /\ Len(calls) = 2
    /\ calls[2].api = "generateContent"
    /\ resp.bytes = << 255, 216, 255, 224 >>
    /\ resp.contentType = Null
    /\ calls[2].request.contents.items[1].parts.items =
          << [inlineData |-> [mimeType |-> Str(<< "i", "m", "a", "g", "e", "/", "j", "p", "e", "g" >>), data |-> Str(<< "/", "9", "j", "/", "4", "A", "=", "=" >>)]],
             [text |-> finalPrompt] >>

\* the fields of the body invocation f received
OwnBody(f) == IF Truthy(f.body) THEN f.body ELSE [k \in {} |-> Undef]

\* the errors that invocation f's own inputs and own upstream answers can raise
OwnErrors(f) ==
    {Error(m) : m \in ThrownMessages}
    \cup (IF ~Truthy(wixToHttps(Get(OwnBody(f), "slabImageUrl")))
          THEN {Error(ConvertFailMsg)} ELSE {})
    \cup (IF f.resp # Undef /\ f.resp.status \notin 200..299
          THEN {Error(DownloadFailPrefix \o NatToStr(f.resp.status) \o << " " >>
                      \o f.resp.statusText)}
          ELSE {})
    \cup (IF \E k \in 1..Len(f.calls) : f.calls[k].api = "generateContent"
          THEN (IF ExtractImage(f.result).threw THEN {ExtractImage(f.result).error} ELSE {})
          ELSE {})

\* the outbound calls and the responses of invocation f are those its own
\* body, its own fetch result and its own generation result determine
Isolated(f) ==
    LET p == Get(OwnBody(f), "prompt")
        u == Get(OwnBody(f), "slabImageUrl")
        l == Get(OwnBody(f), "slabLabel")
    IN IF f.pc = "idle" THEN f = IdleFrame
       ELSE /\ f.prompt = p
            /\ f.slabImageUrl = u
            /\ f.slabLabel = l
            /\ \A k \in 1..Len(f.calls) :
                  IF f.calls[k].api = "fetch"
                  THEN f.calls[k].url = wixToHttps(u)
                  ELSE f.calls[k].request =
                          GenRequest(ComposePrompt(p, l), Str(Base64(f.resp.bytes)),
                                     SlabMimeOf(f.resp))
            /\ \A k \in 1..Len(f.sent) :
                  LET r == f.sent[k]
                  IN CASE r.status = 400 ->
                            /\ PromptRejected(p) \/ SlabRejected(u)
                            /\ f.calls = << >>
                       [] r.status = 200 ->
                            r.json = [ok |-> True,
                                      imageBase64 |-> ExtractImage(f.result).value.imageBase64,
                                      mimeType |-> ExtractImage(f.result).value.mimeType,
                                      model |-> Str(MODEL_NAME),
                                      received |-> JsonObject([prompt |-> p, slabImageUrl |-> u,
                                                               slabLabel |-> l])]
                       [] OTHER ->
                            /\ f.err \in OwnErrors(f)
                            /\ r = [status |-> 500,
                                    json |-> [ok |-> False,
                                              error |-> IF f.err.message.v # << >>
                                                        THEN f.err.message
                                                        ELSE Str(FallbackMsg)]]

\* C21: concurrent requests do not interfere: under every interleaving of two
\* or more requests in flight, each request's outbound calls and response
\* depend only on its own body, its own fetch result and its own generation
\* result, plus the startup configuration, which is only read; no request
\* reads or writes what another request wrote.
C21_RequestsDoNotInterfere ==
    /\ [](\A i \in ReqIds : Isolated(FrameOf(i)))
    /\ [][server' = server]_vars
    /\ [][IF frames'.running = frames.running
          THEN frames' = frames
          ELSE /\ frames'.parked[frames.running] = Frame
               /\ Frame' = frames.parked[frames'.running]
               /\ \A i \in ReqIds \ {frames.running, frames'.running} :
                     frames'.parked[i] = frames.parked[i]]_vars

C21_Witness ==
    /\ frames.running = 2
    /\ pc = "Done"
    /\ sent[1].json.received.prompt = Str(<< " ", "Z", "q", "\n" >>)
    /\ frames.parked[1].awaiting = "generateContent"
    /\ frames.parked[1].prompt = Str(<< "Z", "q" >>)
    /\ Len(frames.parked[1].calls) = 2
    /\ calls[1].url # frames.parked[1].calls[1].url
    /\ calls[2].request # frames.parked[1].calls[2].request

\* C22: every response of POST /api/design has status 200, 400 or 500, and ok
\* is true exactly when the status is 200: a 200 carries a non-empty
\* imageBase64 and no error field, a 400 is sent only from Validating before
\* any outbound call, and a 500 is sent only after validation passed.
C22_StatusAndOkAgree ==
    /\ [](\A i \in 1..Len(sent) :
            /\ sent[i].status \in {200, 400, 500}
            /\ sent[i].json.ok \in {True, False}
            /\ sent[i].json.ok = True <=> sent[i].status = 200
            /\ sent[i].status = 200 =>
                  /\ "imageBase64" \in DOMAIN sent[i].json
                  /\ IsString(sent[i].json.imageBase64)
                  /\ sent[i].json.imageBase64.v # << >>
                  /\ "error" \notin DOMAIN sent[i].json
            /\ sent[i].status = 400 => (calls = << >> /\ httpsUrl = Undef)
            /\ sent[i].status = 500 => PassedValidation)
    /\ [][sent' # sent =>
            /\ Len(sent') = Len(sent) + 1
            /\ sent'[Len(sent')].status = 400 <=> pc = "Validating"
            /\ sent'[Len(sent')].status = 500 =>
                  pc \in {"Resolving", "Fetching", "Composing", "Generating"}
            /\ sent'[Len(sent')].status = 200 => pc = "Responding"]_vars

C22_Witness ==
    /\ pc = "Done"
    /\ Len(sent) = 1
    /\ sent[1].status = 200
    /\ sent[1].json.ok = True
    /\ sent[1].json.imageBase64 = Str(DataB)
    /\ FirstParts(result) = << BinPart(<< >>, Png), BinPart(DataB, Jpeg) >>

====
